---- MODULE Spec2Model ----
(***************************************************************************)
(* A model of statsman's terminal dashboard:                               *)
(*   - ChartRenderer (src/src/statsman/ui/charts.py): the text-chart       *)
(*     functions, as operators over exact rational arithmetic;             *)
(*   - Dashboard (src/src/statsman/ui/dashboard.py): the controller state  *)
(*     (sort key, console size) and its render() tick.                     *)
(*                                                                         *)
(* Python floats are modelled as exact rationals [n, d] (d > 0, lowest     *)
(* terms); int() is truncation toward zero.  A Python exception is the     *)
(* value Raised(...) returned in place of a panel.  The block glyphs are   *)
(* written in ASCII: "#" for the full block, "." for the light shade and   *)
(* "1".."8" for the eight partial blocks of a sparkline.                   *)
(***************************************************************************)
EXTENDS Integers, Sequences, FiniteSets, TLC

VARIABLES
    sort_processes_by,   \* Dashboard.sort_processes_by
    paused,              \* the controller's pause flag
    console_size,        \* console.size: [width, height]
    history_updates,     \* number of samples the monitor was asked to append
    unpaused_renders,    \* number of render() calls made while not paused
    last_call,           \* the controller call made last, with its argument
    frame,               \* what the last render() displayed
    op,                  \* the ChartRenderer operation called
    args,                \* its arguments
    pc,                  \* "call" before it runs, "return" after
    result               \* what it returned

dash_vars == <<sort_processes_by, paused, console_size, history_updates,
               unpaused_renders, last_call, frame>>
chart_vars == <<op, args, pc, result>>
vars == <<sort_processes_by, paused, console_size, history_updates,
          unpaused_renders, last_call, frame, op, args, pc, result>>

----------------------------------------------------------------------------
(* Bounds of the model *)

MaxLen == 3        \* longest series given to create_sparkline
MaxVal == 4        \* sparkline samples are 0..MaxVal, bar values -1..MaxVal
MaxWidth == 4      \* sparkline widths are 1..MaxWidth
MaxBarWidth == 6   \* bar / gauge widths are 1..MaxBarWidth
PctOver == 25      \* percentages range PctOver steps below 0 and above 100
MaxProcs == 3      \* longest process list given to create_mini_process_table
MaxSnapshot == 2   \* longest process snapshot the monitor returns to render()
MaxLimit == 3      \* create_mini_process_table limits are 0..MaxLimit
MaxCores == 3      \* most CPU cores in a snapshot
MaxBars == 2       \* most rows given to the bar charts directly
MaxHeight == 3     \* vertical bar chart heights are 1..MaxHeight
MaxMemory == 2     \* memory sizes are 0..MaxMemory MiB
MaxTicks == 2      \* render() calls in one run of the controller

----------------------------------------------------------------------------
(* Arithmetic *)

Max2(a, b) == IF a >= b THEN a ELSE b
Min2(a, b) == IF a <= b THEN a ELSE b
Abs(a) == IF a < 0 THEN 0 - a ELSE a

RECURSIVE Gcd(_, _)
Gcd(a, b) == IF b = 0 THEN a ELSE Gcd(b, a % b)

\* Python's int(): truncation toward zero of the exact quotient n / d, d > 0.
TruncDiv(n, d) == IF n >= 0 THEN n \div d ELSE 0 - ((0 - n) \div d)

\* A float, as the rational n / d in lowest terms with d > 0.
Rat(n, d) ==
    LET s == IF d < 0 THEN 0 - 1 ELSE 1
        g == Gcd(Abs(n), Abs(d))
    IN  [n |-> (s * n) \div g, d |-> (s * d) \div g]
RInt(i) == [n |-> i, d |-> 1]
RLe(a, b) == a.n * b.d <= b.n * a.d
RLt(a, b) == a.n * b.d < b.n * a.d
RMin(a, b) == IF RLe(a, b) THEN a ELSE b
RSub(a, b) == Rat(a.n * b.d - b.n * a.d, a.d * b.d)
RMul(a, b) == Rat(a.n * b.n, a.d * b.d)
RDiv(a, b) == Rat(a.n * b.d, a.d * b.n)          \* b # 0
RTrunc(a) == TruncDiv(a.n, a.d)

\* A Python exception, in place of the value the call would return.
Raised(what) == [kind |-> "raised", exception |-> what]

\* ch * n: the empty string when n <= 0.
RECURSIVE StrRepeat(_, _)
StrRepeat(ch, n) ==
    IF n <= 0 THEN ""
    ELSE LET half == StrRepeat(ch, n \div 2)
         IN  IF n % 2 = 0 THEN half \o half ELSE half \o half \o ch

\* "".join(parts)
RECURSIVE Join(_)
Join(parts) == IF parts = <<>> THEN "" ELSE Head(parts) \o Join(Tail(parts))

FULL == "#"
LIGHT == "."
CharAt(s, i) == SubSeq(s, i, i)
Count(s, ch) == Cardinality({i \in 1..Len(s) : CharAt(s, i) = ch})

----------------------------------------------------------------------------
(* ChartRenderer.create_sparkline *)

RECURSIVE SeqMin(_)
SeqMin(s) == IF Len(s) = 1 THEN s[1] ELSE Min2(s[1], SeqMin(Tail(s)))
RECURSIVE SeqMax(_)
SeqMax(s) == IF Len(s) = 1 THEN s[1] ELSE Max2(s[1], SeqMax(Tail(s)))

\* spark_chars: a space, then the eight block glyphs of increasing fill.
spark_chars == <<" ", "1", "2", "3", "4", "5", "6", "7", "8">>

\* (variant: min and max of the displayed tail only)
WindowedSparkScale(data, width) ==
    LET tail == IF Len(data) > width
                THEN SubSeq(data, Len(data) - width + 1, Len(data)) ELSE data
        min_val == SeqMin(tail)
        max_val == SeqMax(tail)
    IN  [min_val |-> min_val,
         range_val |-> IF max_val # min_val THEN max_val - min_val ELSE 1]
\* min_val and range_val, taken over the whole series.
SparkScale(data, width) ==
    LET min_val == SeqMin(data)
        max_val == SeqMax(data)
    IN  [min_val |-> min_val,
         range_val |-> IF max_val # min_val THEN max_val - min_val ELSE 1]

\* (variant: the first width samples)
OldestData(data, width) ==
    IF Len(data) > width THEN SubSeq(data, 1, width) ELSE data
\* recent_data = data[-width:] if len(data) > width else data   (width >= 1)
RecentData(data, width) ==
    IF Len(data) > width
    THEN SubSeq(data, Len(data) - width + 1, Len(data)) ELSE data

\* (variant: eight levels, rounded up, so that no sample maps to the space)
CeilCharIndex(value, min_val, range_val) ==
    LET normalized == Rat(value - min_val, range_val)
        scaled == RMul(normalized, RInt(Len(spark_chars) - 1))
        char_index == Min2(RTrunc(scaled) + 1, Len(spark_chars) - 1)
    IN  Max2(0, char_index)
\* char_index, after both clamps.
CharIndex(value, min_val, range_val) ==
    LET normalized == Rat(value - min_val, range_val)
        scaled == RMul(normalized, RInt(Len(spark_chars)))
        char_index == Min2(RTrunc(scaled), Len(spark_chars) - 1)
    IN  Max2(0, char_index)

create_sparkline(data, width) ==
    IF data = <<>>
    THEN StrRepeat(" ", width)
    ELSE LET scale == SparkScale(data, width)
             recent_data == RecentData(data, width)
         IN  Join([i \in 1..Len(recent_data) |->
                      spark_chars[CharIndex(recent_data[i], scale.min_val,
                                            scale.range_val) + 1]])

----------------------------------------------------------------------------
(* ChartRenderer.create_vertical_bars / create_horizontal_bars.            *)
(* data is a dict in insertion order: a sequence of [label, value], the    *)
(* value a rational.                                                       *)

RECURSIVE RSeqMax(_)
RSeqMax(s) ==
    IF Len(s) = 1 THEN s[1]
    ELSE LET m == RSeqMax(Tail(s)) IN IF RLe(m, s[1]) THEN s[1] ELSE m

Values(data) == [i \in 1..Len(data) |-> data[i].value]

\* f"{label[:n]:n}": cut to n characters, then padded with spaces to n.
CutPad(label, n) ==
    LET cut == SubSeq(label, 1, Min2(Len(label), n))
    IN  cut \o StrRepeat(" ", n - Len(cut))
\* f"{label:n}": padded with spaces to at least n characters, never cut.
Pad(label, n) == label \o StrRepeat(" ", n - Len(label))

\* int((v / max_val) * width) if max_val > 0 else 0
BarWidth(v, max_val, width) ==
    IF RLt(RInt(0), max_val)
    THEN RTrunc(RMul(RDiv(v, max_val), RInt(width)))
    ELSE 0

create_vertical_bars(data, height, width) ==
    IF data = <<>>
    THEN [kind |-> "panel", text |-> "No data", border_style |-> "red"]
    ELSE LET max_val == RSeqMax(Values(data))
             bar_widths == [i \in 1..Len(data) |->
                               BarWidth(data[i].value, max_val, width)]
             \* threshold = (level / height) * width; bar_width >= threshold,
             \* both sides multiplied by height
             Cell(level, i) ==
                 IF bar_widths[i] * height >= level * width
                 THEN FULL \o "  " ELSE " " \o "  "
             \* rows from level = height down to level = 1
             lines == [r \in 1..height |->
                          Join([i \in 1..Len(data) |->
                                   Cell(height - r + 1, i)])]
             label_line == Join([i \in 1..Len(data) |->
                               CutPad(data[i].label, 8) \o "  "])
         IN  [kind |-> "panel", border_style |-> "blue",
              height |-> height, width |-> width,
              bar_widths |-> bar_widths,
              lines |-> lines, label_line |-> label_line]

\* bar = FULL * bar_width + LIGHT * (max_width - bar_width)
Bar(filled, width) == StrRepeat(FULL, filled) \o StrRepeat(LIGHT, width - filled)

create_horizontal_bars(data, max_width) ==
    IF data = <<>>
    THEN [kind |-> "panel", text |-> "No data", border_style |-> "red"]
    ELSE LET max_val == RSeqMax(Values(data))
         IN  [kind |-> "panel", border_style |-> "green",
              max_width |-> max_width,
              rows |-> [i \in 1..Len(data) |->
                  LET bar_width == BarWidth(data[i].value, max_val, max_width)
                  IN  [label |-> Pad(data[i].label, 6),
                       bar_width |-> bar_width,
                       bar |-> Bar(bar_width, max_width),
                       value |-> data[i].value]]]

----------------------------------------------------------------------------
(* ChartRenderer._create_mini_bar / _create_gauge / create_system_gauges *)

PercentScale == 100

\* (variant: one block more than the truncated quotient)
PaddedFilled(percentage, width) ==
    TruncDiv(percentage * width, PercentScale) + 1
\* filled = int((percentage / 100) * width)
Filled(percentage, width) == TruncDiv(percentage * width, PercentScale)

_create_mini_bar(percentage, width) == Bar(Filled(percentage, width), width)

_create_gauge(percentage, label, width) ==
    [kind |-> "text", label |-> label,
     bar |-> Bar(Filled(percentage, width), width),
     percentage |-> percentage]

\* clamp: max(lo, min(hi, x))
Clamp(lo, hi, x) == Max2(lo, Min2(hi, x))

DefaultConsoleWidth == 80

GaugeWidth(console_width) == Clamp(15, 30, console_width \div 4)

create_system_gauges(cpu_info, memory_info, disk_info, console_width) ==
    LET gauge_width == GaugeWidth(console_width)
    IN  [kind |-> "panel", border_style |-> "cyan",
         gauge_width |-> gauge_width,
         gauges |-> <<_create_gauge(cpu_info.percent, "CPU", gauge_width),
                      _create_gauge(memory_info.percent, "MEM", gauge_width),
                      _create_gauge(disk_info.percent, "DSK", gauge_width)>>]

----------------------------------------------------------------------------
(* ChartRenderer.create_mini_process_table *)

\* (variant: an ascending stable sort, reversed; ties come out reversed)
RECURSIVE ReversedAscending(_, _)
ReversedAscending(s, key) ==
    IF s = <<>> THEN <<>>
    ELSE LET rest == ReversedAscending(Tail(s), key)
             x == Head(s)
             before == SelectSeq(rest, LAMBDA y : y[key] >= x[key])
             after == SelectSeq(rest, LAMBDA y : y[key] < x[key])
         IN  before \o <<x>> \o after
\* sorted(s, key=..., reverse=True) and list.sort(key=..., reverse=True):
\* descending by key, elements with equal keys kept in their original order.
RECURSIVE SortedDesc(_, _)
SortedDesc(s, key) ==
    IF s = <<>> THEN <<>>
    ELSE LET rest == SortedDesc(Tail(s), key)
             x == Head(s)
             before == SelectSeq(rest, LAMBDA y : y[key] > x[key])
             after == SelectSeq(rest, LAMBDA y : y[key] <= x[key])
         IN  before \o <<x>> \o after

\* sorted(s, ...) builds a new list: the list passed in is left as it was.
ListAfterSorted(s, key) == s

\* s[:n] for n >= 0
Take(s, n) == SubSeq(s, 1, Min2(n, Len(s)))

\* (proc.name[:18] + "..") if len(proc.name) > 20 else proc.name.ljust(20)
FormatName(name) ==
    IF Len(name) > 20 THEN SubSeq(name, 1, 18) \o ".."
    ELSE Pad(name, 20)

DefaultLimit == 12

create_mini_process_table(processes, limit, console_width) ==
    IF processes = <<>>
    THEN [kind |-> "panel", text |-> "No processes", border_style |-> "red"]
    ELSE LET sorted_processes == SortedDesc(processes, "cpu_percent")
             bar_width == Clamp(5, 10, (console_width - 25) \div 4)
             shown == Take(sorted_processes, limit)
         IN  [kind |-> "panel", title |-> "Top Processes",
              border_style |-> "magenta",
              separator |-> StrRepeat("=", Min2(console_width - 4, 75)),
              rows |-> [i \in 1..Len(shown) |->
                  [pid |-> shown[i].pid,
                   name |-> FormatName(shown[i].name),
                   cpu_bar |-> _create_mini_bar(shown[i].cpu_percent, bar_width),
                   mem_bar |-> _create_mini_bar(shown[i].memory_percent,
                                             bar_width)]]]

----------------------------------------------------------------------------
(* ChartRenderer.create_network_visualization / create_cpu_core_visualization *)
(* / create_memory_breakdown                                                 *)

MiB == 1048576
GiB == 1073741824

BarAreaWidth(console_width) == Clamp(15, 70, console_width \div 2)

create_network_visualization(network_info, console_width) ==
    LET sent_mb == Rat(network_info.bytes_sent, MiB)
        recv_mb == Rat(network_info.bytes_recv, MiB)
        network_data ==
            <<[label |-> "UPLOAD",
               value |-> RMin(RMul(sent_mb, RInt(10)), RInt(100))],
              [label |-> "DOWNLOAD",
               value |-> RMin(RMul(recv_mb, RInt(10)), RInt(100))]>>
    IN  create_horizontal_bars(network_data, BarAreaWidth(console_width))

Digit(d) == <<"0", "1", "2", "3", "4", "5", "6", "7", "8", "9">>[d + 1]
\* f"C{i:02d}" for 0 <= i < 100
CoreLabel(i) == "C" \o Digit(i \div 10) \o Digit(i % 10)

\* (variant: the clamp's bounds read as min(lo, ...), giving x when x < lo)
UnclampedCoreBarWidth(console_width) == Min2(40, console_width \div 8)
\* bar_width = max(20, min(40, console_width // 8))
CoreBarWidth(console_width) == Clamp(20, 40, console_width \div 8)

CoreBarHeight == 8

create_cpu_core_visualization(cpu_info, console_width) ==
    IF cpu_info.percent_per_core = <<>>
    THEN [kind |-> "panel", text |-> "No core data", border_style |-> "red"]
    ELSE LET cores == cpu_info.percent_per_core
             \* enumerate() counts from 0
             core_data == [k \in 1..Len(cores) |->
                              [label |-> CoreLabel(k - 1),
                               value |-> RInt(cores[k])]]
         IN  create_vertical_bars(core_data, CoreBarHeight,
                                CoreBarWidth(console_width))

create_memory_breakdown(memory_info, console_width) ==
    LET used_gb == Rat(memory_info.used, GiB)
        total_gb == Rat(memory_info.total, GiB)
    IN  \* used_gb / total_gb: float division by zero raises
        IF total_gb.n = 0
        THEN Raised("ZeroDivisionError")
        ELSE LET memory_data ==
                     <<[label |-> "USED",
                        value |-> RMul(RDiv(used_gb, total_gb), RInt(100))],
                       [label |-> "FREE",
                        value |-> RMul(RDiv(RSub(total_gb, used_gb), total_gb),
                                       RInt(100))]>>
             IN  create_horizontal_bars(memory_data, BarAreaWidth(console_width))

----------------------------------------------------------------------------
(* Inputs *)

\* Sequences over S of length 0..n.
SeqsUpTo(S, n) == UNION {[1..k -> S] : k \in 0..n}

ShortName == "init"
LongName == "a-process-name-of-21c"

\* Process lists of up to n rows, the pid being the row's position and
\* usage the <<cpu_percent, memory_percent>> pairs a row may show.
ProcessLists(n, usage) ==
    {[i \in 1..Len(f) |->
         [pid |-> i,
          name |-> IF i % 2 = 1 THEN ShortName ELSE LongName,
          cpu_percent |-> f[i][1],
          memory_percent |-> f[i][2]]] :
     f \in SeqsUpTo(usage, n)}

\* What monitor.get_process_info may return to render().
Snapshots == ProcessLists(MaxSnapshot, {<<10, 90>>, <<90, 10>>})

ConsoleWidths == {20, 80, 160, 240, 400}

----------------------------------------------------------------------------
(* Dashboard *)

SortKeys == {"cpu", "memory"}
SortRequests == {"cpu", "memory", "bogus"}

ConsoleSizes == {[width |-> 80, height |-> 24], [width |-> 160, height |-> 90]}

\* Point-in-time readings of the monitor (total memory is never 0 there).
Telemetry ==
    {[cpu |-> [percent |-> 37, percent_per_core |-> <<10, 50, 90>>],
      memory |-> [percent |-> 50, used |-> MiB, total |-> 2 * MiB],
      disk |-> [percent |-> 100],
      network |-> [bytes_sent |-> 0, bytes_recv |-> 5 * MiB]],
     [cpu |-> [percent |-> 0, percent_per_core |-> <<>>],
      memory |-> [percent |-> 100, used |-> MiB, total |-> MiB],
      disk |-> [percent |-> 12],
      network |-> [bytes_sent |-> 20 * MiB, bytes_recv |-> MiB \div 2]]}

NoFrame == [kind |-> "empty"]

DashInit ==
    /\ sort_processes_by = "cpu"
    /\ paused = FALSE
    /\ console_size \in ConsoleSizes
    /\ history_updates = 0
    /\ unpaused_renders = 0
    /\ last_call = [op |-> "init"]
    /\ frame = NoFrame

\* limit = max(8, height // 3, 20)
ProcessLimit(height) == Max2(Max2(8, height \div 3), 20)

\* Dashboard._create_processes_visual, procs being what
\* monitor.get_process_info(limit + 5) returned.
_create_processes_visual(procs, sort_by, height) ==
    LET limit == ProcessLimit(height)
        ordered == IF sort_by = "memory"
                   THEN SortedDesc(procs, "memory_percent") ELSE procs
    IN  create_mini_process_table(Take(ordered, limit), DefaultLimit,
                               DefaultConsoleWidth)

\* Dashboard.render: one tick.  frame holds the panels whose content the
\* tick computes from the readings and the snapshot; the fixed header and
\* footer and the two sparklines of the monitor's own history are left out.
render ==
    /\ history_updates < MaxTicks
    /\ \E t \in Telemetry, procs \in Snapshots :
          /\ Len(procs) <= ProcessLimit(console_size.height) + 5
          /\ frame' =
               [kind |-> "layout",
                snapshot |-> procs,
                gauges |-> create_system_gauges(t.cpu, t.memory, t.disk,
                                              DefaultConsoleWidth),
                cores |-> create_cpu_core_visualization(t.cpu,
                                                     DefaultConsoleWidth),
                memory |-> create_memory_breakdown(t.memory,
                                                 DefaultConsoleWidth),
                network |-> create_network_visualization(t.network,
                                                       DefaultConsoleWidth),
                processes |-> _create_processes_visual(procs, sort_processes_by,
                                                    console_size.height)]
    \* self.monitor.update_history()
    /\ history_updates' = history_updates + 1
    /\ unpaused_renders' = IF paused THEN unpaused_renders
                           ELSE unpaused_renders + 1
    /\ last_call' = [op |-> "render"]
    /\ UNCHANGED <<sort_processes_by, paused, console_size>>

\* (variant: the key is stored unchecked)
StoreAnyKey(current, sort_by) == sort_by
\* if sort_by in ("cpu", "memory"): self.sort_processes_by = sort_by
AcceptedSortKey(current, sort_by) ==
    IF sort_by \in {"cpu", "memory"} THEN sort_by ELSE current

\* Dashboard.set_process_sort
set_process_sort ==
    \E sort_by \in SortRequests :
        /\ sort_processes_by' = AcceptedSortKey(sort_processes_by, sort_by)
        /\ last_call' = [op |-> "set_process_sort", sort_by |-> sort_by]
        /\ UNCHANGED <<paused, console_size, history_updates,
                       unpaused_renders, frame>>

\* The controller's pause toggle.
TogglePause ==
    /\ paused' = ~paused
    /\ last_call' = [op |-> "toggle_pause"]
    /\ UNCHANGED <<sort_processes_by, console_size, history_updates,
                   unpaused_renders, frame>>

\* The terminal is resized between two ticks.
Resize ==
    /\ \E size \in ConsoleSizes \ {console_size} : console_size' = size
    /\ last_call' = [op |-> "resize"]
    /\ UNCHANGED <<sort_processes_by, paused, history_updates,
                   unpaused_renders, frame>>

ChartIdle == op = "none" /\ args = <<>> /\ pc = "idle" /\ result = <<>>

Init == DashInit /\ ChartIdle

Next ==
    \/ render /\ UNCHANGED chart_vars
    \/ set_process_sort /\ UNCHANGED chart_vars
    \/ TogglePause /\ UNCHANGED chart_vars
    \/ Resize /\ UNCHANGED chart_vars

Spec == Init /\ [][Next]_vars

----------------------------------------------------------------------------
(* ChartRenderer: each operation called once on inputs drawn at the start *)

Percentages == (0 - PctOver)..(PercentScale + PctOver)
BarWidths == 1..MaxBarWidth

BarLabel(i) == IF i = 1 THEN "cpu" ELSE "a-long-label"
BarData ==
    {[i \in 1..Len(f) |-> [label |-> BarLabel(i), value |-> RInt(f[i])]] :
     f \in SeqsUpTo((0 - 1)..MaxVal, MaxBars)}

NetBytes == {0, MiB \div 2, 5 * MiB, 20 * MiB}
\* used <= total
MemoryInfos ==
    UNION {{[used |-> u * MiB, total |-> t * MiB] : u \in 0..t} :
           t \in 0..MaxMemory}

Calls ==
    [op : {"create_sparkline"},
     args : [data : SeqsUpTo(0..MaxVal, MaxLen), width : 1..MaxWidth]]
    \cup
    [op : {"create_vertical_bars"},
     args : [data : BarData, height : 1..MaxHeight, width : BarWidths]]
    \cup
    [op : {"create_horizontal_bars"},
     args : [data : BarData, max_width : BarWidths]]
    \cup
    [op : {"create_mini_process_table"},
     args : [processes : ProcessLists(MaxProcs, {10, 90} \X {10, 90}),
             limit : 0..MaxLimit, console_width : {40, 80}]]
    \cup
    [op : {"_create_mini_bar"},
     args : [percentage : Percentages, width : BarWidths]]
    \cup
    [op : {"_create_gauge"},
     args : [percentage : Percentages, label : {"CPU"}, width : BarWidths]]
    \cup
    [op : {"create_system_gauges"},
     args : [cpu_info : [percent : {0, 37, 100}],
             memory_info : [percent : {0, 37, 100}],
             disk_info : [percent : {0, 37, 100}],
             console_width : ConsoleWidths]]
    \cup
    [op : {"create_network_visualization"},
     args : [network_info : [bytes_sent : NetBytes, bytes_recv : NetBytes],
             console_width : ConsoleWidths]]
    \cup
    [op : {"create_cpu_core_visualization"},
     args : [cpu_info : [percent_per_core : SeqsUpTo({10, 50, 90}, MaxCores)],
             console_width : ConsoleWidths]]
    \cup
    [op : {"create_memory_breakdown"},
     args : [memory_info : MemoryInfos, console_width : ConsoleWidths]]

DashIdle ==
    /\ sort_processes_by = "cpu"
    /\ paused = FALSE
    /\ console_size = [width |-> DefaultConsoleWidth, height |-> 24]
    /\ history_updates = 0
    /\ unpaused_renders = 0
    /\ last_call = [op |-> "init"]
    /\ frame = NoFrame

ChartInit ==
    /\ DashIdle
    /\ \E call \in Calls : op = call.op /\ args = call.args
    /\ pc = "call"
    /\ result = <<>>

Return(name, value) ==
    /\ pc = "call"
    /\ op = name
    /\ pc' = "return"
    /\ result' = value
    /\ UNCHANGED op
    /\ UNCHANGED dash_vars

Sparkline ==
    /\ Return("create_sparkline", create_sparkline(args.data, args.width))
    /\ UNCHANGED args
VerticalBars ==
    /\ Return("create_vertical_bars",
              create_vertical_bars(args.data, args.height, args.width))
    /\ UNCHANGED args
HorizontalBars ==
    /\ Return("create_horizontal_bars",
              create_horizontal_bars(args.data, args.max_width))
    /\ UNCHANGED args
\* The caller's list is an argument passed by reference: args holds it as
\* the call leaves it.
MiniProcessTable ==
    /\ Return("create_mini_process_table",
              create_mini_process_table(args.processes, args.limit,
                                     args.console_width))
    /\ args' = [args EXCEPT !.processes = ListAfterSorted(@, "cpu_percent")]
MiniBar ==
    /\ Return("_create_mini_bar", _create_mini_bar(args.percentage, args.width))
    /\ UNCHANGED args
Gauge ==
    /\ Return("_create_gauge",
              _create_gauge(args.percentage, args.label, args.width))
    /\ UNCHANGED args
SystemGauges ==
    /\ Return("create_system_gauges",
              create_system_gauges(args.cpu_info, args.memory_info,
                                 args.disk_info, args.console_width))
    /\ UNCHANGED args
NetworkVisualization ==
    /\ Return("create_network_visualization",
              create_network_visualization(args.network_info,
                                         args.console_width))
    /\ UNCHANGED args
CpuCoreVisualization ==
    /\ Return("create_cpu_core_visualization",
              create_cpu_core_visualization(args.cpu_info, args.console_width))
    /\ UNCHANGED args
MemoryBreakdown ==
    /\ Return("create_memory_breakdown",
              create_memory_breakdown(args.memory_info, args.console_width))
    /\ UNCHANGED args

ChartNext ==
    \/ Sparkline
    \/ VerticalBars
    \/ HorizontalBars
    \/ MiniProcessTable
    \/ MiniBar
    \/ Gauge
    \/ SystemGauges
    \/ NetworkVisualization
    \/ CpuCoreVisualization
    \/ MemoryBreakdown

ChartSpec == ChartInit /\ [][ChartNext]_vars

----------------------------------------------------------------------------
(* Properties of the Dashboard (checked under Spec) *)

Rendered == last_call.op = "render"
ShownRows == IF frame.snapshot = <<>> THEN <<>> ELSE frame.processes.rows
\* pid is the row's position in the snapshot the monitor returned
MemoryOf(pid) == frame.snapshot[pid].memory_percent

\* C1: once the sort key is "memory", a render() displays the process rows in
\* descending memory_percent order, whatever snapshot the monitor returned.
C1_RowsByMemory ==
    (Rendered /\ sort_processes_by = "memory") =>
        \A i, j \in 1..Len(ShownRows) :
            i < j => MemoryOf(ShownRows[i].pid) >= MemoryOf(ShownRows[j].pid)

\* C2: the monitor is asked to append a history sample once per render() made
\* while not paused and never while paused: the number of history updates
\* equals the number of render() calls made while not paused.
C2_HistoryOnlyWhenUnpaused == history_updates = unpaused_renders

\* C3: the sort key is "cpu" at the start and always one of "cpu", "memory";
\* set_process_sort(k) sets it to k when k is one of the two and leaves it
\* unchanged for any other k; no other call (render() included) changes it.
C3_SortKeyDiscipline ==
    /\ sort_processes_by = "cpu"
    /\ [][/\ sort_processes_by' \in SortKeys
          /\ last_call'.op = "set_process_sort" =>
                sort_processes_by' =
                    IF last_call'.sort_by \in SortKeys
                    THEN last_call'.sort_by ELSE sort_processes_by
          /\ last_call'.op # "set_process_sort" =>
                sort_processes_by' = sort_processes_by]_vars

\* C3's case: "memory" was set, a render() followed, and a later
\* set_process_sort("bogus") left the key at "memory".
C3_Witness ==
    /\ last_call = [op |-> "set_process_sort", sort_by |-> "bogus"]
    /\ sort_processes_by = "memory"
    /\ frame # NoFrame
    /\ Len(frame.snapshot) = 2

\* C10: every render() computes its widths from the terminal width W of that
\* tick: gauges clamp(15, 30, W / 4), core bars clamp(20, 40, W / 8), memory
\* and network bars clamp(15, 70, W / 2).
C10_GeometryFollowsTerminal ==
    Rendered =>
        LET W == console_size.width
        IN  /\ frame.gauges.gauge_width = Clamp(15, 30, W \div 4)
            /\ "width" \in DOMAIN frame.cores =>
                   frame.cores.width = Clamp(20, 40, W \div 8)
            /\ frame.memory.max_width = Clamp(15, 70, W \div 2)
            /\ frame.network.max_width = Clamp(15, 70, W \div 2)

----------------------------------------------------------------------------
(* Properties of the ChartRenderer (checked under ChartSpec) *)

Returned(name) == pc = "return" /\ op = name

\* The bar of a returned gauge or mini bar has width glyphs, of which the
\* filled ones number round_down(percentage / 100 * width), within 0..width.
PercentBarWithinWidth(bar) ==
    /\ Len(bar) = args.width
    /\ Count(bar, FULL) \in 0..args.width
    /\ Count(bar, FULL) = TruncDiv(args.percentage * args.width, 100)

\* Every row of the returned horizontal bar chart has max_width glyphs, of
\* which the filled ones number bar_width, within 0..max_width.
RowsWithinWidth ==
    "rows" \in DOMAIN result =>
        \A i \in 1..Len(result.rows) :
            /\ result.rows[i].bar_width \in 0..args.max_width
            /\ Len(result.rows[i].bar) = args.max_width
            /\ Count(result.rows[i].bar, FULL) = result.rows[i].bar_width

BarsWithinWidth ==
    /\ Returned("_create_mini_bar") => PercentBarWithinWidth(result)
    /\ Returned("_create_gauge") => PercentBarWithinWidth(result.bar)
    /\ Returned("create_horizontal_bars") => RowsWithinWidth

PercentInRange == args.percentage \in 0..100
NoNegativeValue == \A i \in 1..Len(args.data) : args.data[i].value.n >= 0

\* C4, as claimed: for every input value, a gauge's or mini bar's filled
\* length round_down(percentage / 100 * width) is within 0..width and the bar
\* is width glyphs long; every horizontal bar row has a filled width within
\* 0..max_width and max_width glyphs.
C4_AnyValue == BarsWithinWidth

\* C4, amended: the same, for percentages from 0 to 100 (gauge, mini bar)
\* and for data without negative values (horizontal bars).
C4_ValuesInRange ==
    /\ (Returned("_create_mini_bar") /\ PercentInRange) =>
           PercentBarWithinWidth(result)
    /\ (Returned("_create_gauge") /\ PercentInRange) =>
           PercentBarWithinWidth(result.bar)
    /\ (Returned("create_horizontal_bars") /\ NoNegativeValue) =>
           RowsWithinWidth

\* C4's case: a gauge of 100 percent, filled over its whole width.
C4_Witness ==
    /\ Returned("_create_gauge")
    /\ args.percentage = 100
    /\ args.width = MaxBarWidth
    /\ Count(result.bar, FULL) = MaxBarWidth

IsRaised == op \notin {"create_sparkline", "_create_mini_bar"}
            /\ result.kind = "raised"

\* C5: no geometry operation raises a division by zero for inputs with width
\* and height >= 1; a zero denominator is replaced by a fallback and the
\* rendering is flat (no filled block in any row of all-zero horizontal bars).
C5_NoDivisionByZero ==
    pc = "return" =>
        /\ ~IsRaised
        /\ (op = "create_horizontal_bars"
            /\ \A i \in 1..Len(args.data) : args.data[i].value.n = 0) =>
               RowsWithinWidth /\
               \A i \in 1..Len(args.data) : result.rows[i].bar_width = 0

IsConstant(data) == data # <<>> /\ \A i \in 1..Len(data) : data[i] = data[1]
AllGlyphs(line, glyph) == \A i \in 1..Len(line) : CharAt(line, i) = glyph

\* C6, as claimed: the sparkline of a constant series of length >= 1 shows
\* the same glyph at every position, the lowest non-zero fill (index 1 of the
\* nine glyphs).
C6_ConstantIsLowestBlock ==
    (Returned("create_sparkline") /\ IsConstant(args.data)) =>
        /\ Len(result) = Min2(Len(args.data), args.width)
        /\ AllGlyphs(result, spark_chars[2])

\* C6, amended: the same glyph at every position, which is the space (index
\* 0 of the nine glyphs).
C6_ConstantIsBlank ==
    (Returned("create_sparkline") /\ IsConstant(args.data)) =>
        /\ Len(result) = Min2(Len(args.data), args.width)
        /\ AllGlyphs(result, spark_chars[1])

\* C6's case: a constant, non-zero series longer than one sample.
C6_Witness ==
    /\ Returned("create_sparkline")
    /\ IsConstant(args.data)
    /\ Len(args.data) >= 2
    /\ args.data[1] = MaxVal
    /\ Len(result) >= 2

Range(data) == {data[i] : i \in 1..Len(data)}
Lowest(data) == CHOOSE m \in Range(data) : \A x \in Range(data) : m <= x
Highest(data) == CHOOSE m \in Range(data) : \A x \in Range(data) : m >= x
\* floor((value - min) / range * 9) clamped to 0..8, over the whole series
GlyphIndex(value, data) ==
    LET span == IF Highest(data) = Lowest(data) THEN 1
                ELSE Highest(data) - Lowest(data)
        index == ((value - Lowest(data)) * 9) \div span
    IN  IF index > 8 THEN 8 ELSE IF index < 0 THEN 0 ELSE index

\* C7: for a non-empty series and width >= 1 the sparkline has
\* min(len, width) glyphs, one per sample of the last min(len, width) samples,
\* oldest first, each the glyph of index floor((value - min) / range * 9)
\* clamped to 0..8 with min and max over the entire series; for an empty
\* series it is width spaces.
C7_SparklineShape ==
    Returned("create_sparkline") =>
        LET data == args.data
            n == Min2(Len(data), args.width)
        IN  IF data = <<>>
            THEN Len(result) = args.width /\ AllGlyphs(result, " ")
            ELSE /\ Len(result) = n
                 /\ \A i \in 1..n :
                        CharAt(result, i) =
                            spark_chars[GlyphIndex(data[Len(data) - n + i],
                                                   data) + 1]

\* C7's case: a series longer than the width whose extreme value lies in
\* the part that is cut off.
C7_Witness ==
    /\ Returned("create_sparkline")
    /\ args.data = <<MaxVal, 0, 1>>
    /\ args.width = 2
    /\ result = " 2"

CpuOf(pid) == args.processes[pid].cpu_percent
\* the place of the row given as pid-th in a stable descending sort by cpu
StableRank(pid) ==
    1 + Cardinality({q \in 1..Len(args.processes) :
                        \/ CpuOf(q) > CpuOf(pid)
                        \/ CpuOf(q) = CpuOf(pid) /\ q < pid})

\* C8: for a non-empty process list and limit >= 0 the table has
\* min(len, limit) data rows: the first rows of the input sorted by
\* cpu_percent descending, ties in input order; the input list is not
\* reordered.
C8_TableRows ==
    (Returned("create_mini_process_table") /\ args.processes # <<>>) =>
        /\ \A i \in 1..Len(args.processes) : args.processes[i].pid = i
        /\ Len(result.rows) = Min2(Len(args.processes), args.limit)
        /\ \A k \in 1..Len(result.rows) : StableRank(result.rows[k].pid) = k

\* C8's case: three processes, the first and the third tied below the second,
\* and a limit that cuts the third off.
C8_Witness ==
    /\ Returned("create_mini_process_table")
    /\ Len(args.processes) = 3
    /\ CpuOf(1) = 10 /\ CpuOf(2) = 90 /\ CpuOf(3) = 10
    /\ args.limit = 2
    /\ Len(result.rows) = 2
    /\ result.rows[1].pid = 2 /\ result.rows[2].pid = 1

ThreeCores ==
    /\ Returned("create_cpu_core_visualization")
    /\ args.cpu_info.percent_per_core = <<10, 50, 90>>
    /\ args.console_width = 80

ThreeCoreLabels ==
    /\ Len(result.lines) = 8
    /\ result.height = 8
    /\ result.label_line = "C00       C01       C02       "

\* C9, as claimed: the 3-core snapshot <<10, 50, 90>> at console width 80 is
\* rendered as the bars C00, C01, C02, in that order, with height 8 and bar
\* width 10.
C9_BarWidthTen ==
    ThreeCores => ThreeCoreLabels /\ result.width = 10

\* C9, amended: the same, with bar width clamp(20, 40, 80 / 8) = 20.
C9_BarWidthTwenty ==
    ThreeCores =>
        /\ ThreeCoreLabels
        /\ result.width = 20
        /\ result.bar_widths = <<2, 11, 20>>

\* C9's case: that snapshot, rendered.
C9_Witness == ThreeCores /\ result.kind = "panel"

====
